---------------------------- MODULE Spec2Model ----------------------------
(***************************************************************************)
(* Stage orchestration of the sales-assistant chat agent.                  *)
(*                                                                         *)
(* One turn is AgentService.send_to_agent_langgraph: it opens the graph    *)
(* built by MainGraph on the checkpointer's thread for the chat, feeds the *)
(* new user message and runs the nodes detect_stage, handle_admin,         *)
(* handle_demo and handle_demo_setup; the checkpointer stores the graph    *)
(* state after the input is applied and after every node.                  *)
(*                                                                         *)
(* Texts are sequences of tokens.  The letters s,t,o,p / S,T,O,P stand for *)
(* the Cyrillic letters of the stop command in lower / upper case, and the *)
(* tokens of Prefix stand for the demo marker string of handle_demo.       *)
(***************************************************************************)
EXTENDS Integers, Sequences, FiniteSets, TLC

VARIABLES
    store,      \* thread_id -> latest checkpoint of the thread (or none)
    pc,         \* position of the turn in flight: idle, a node name, end, failed,
                \* unavailable, no_graph
    cur,        \* graph state (ConversationState) of the turn in flight
    restored,   \* what the turn in flight found in the store when it started
    calls,      \* agent calls made so far by the turn in flight
    turns,      \* number of turns started (bounded by MaxTurns)
    overlap,    \* what a second turn for the same chat stored while the turn in
                \* flight was between two nodes (or none)
    agents_cache,   \* MainGraph._agents_cache: the agents created so far
    compiled,       \* the turn in flight holds a compiled graph
    session_configs,    \* the rows of table session_configs (SessionConfigService)
    now,                \* the clock of the database behind session_configs
    svc,                \* the last call of SessionConfigService and what it returned
    dialog_states,      \* sample revision: chat_id -> current_stage (DialogStateStorage)
    sample_configs,     \* sample revision: thread_id -> stored demo configuration
    sample,             \* sample revision: the turn in flight
    shared              \* two sessions' turns on one cached agent: the agents'
                        \* attribute _call_manager_result and each turn's position

\* the state of the services that stand beside the graph of the chat turns
sideVars == <<session_configs, now, svc, dialog_states, sample_configs, sample, shared>>

vars == <<store, pc, cur, restored, calls, turns, overlap, agents_cache, compiled,
          session_configs, now, svc, dialog_states, sample_configs, sample, shared>>

---------------------------------------------------------------------------
(* Bounds *)

MaxTurns == 2

---------------------------------------------------------------------------
(* Texts *)

IsSpace(c) == c \in {" ", "NL"}

RECURSIVE LStrip(_)
LStrip(t) == IF t # <<>> /\ IsSpace(Head(t)) THEN LStrip(Tail(t)) ELSE t

RECURSIVE RStrip(_)
RStrip(t) ==
    IF t # <<>> /\ IsSpace(t[Len(t)]) THEN RStrip(SubSeq(t, 1, Len(t) - 1)) ELSE t

\* str.strip()
Strip(t) == RStrip(LStrip(t))

LowerChar(c) ==
    CASE c = "S" -> "s"
      [] c = "T" -> "t"
      [] c = "O" -> "o"
      [] c = "P" -> "p"
      [] OTHER -> c

\* str.lower()
Lower(t) == [i \in 1..Len(t) |-> LowerChar(t[i])]

\* str.startswith(p)
StartsWith(t, p) == Len(t) >= Len(p) /\ SubSeq(t, 1, Len(p)) = p

\* str.endswith(p)
EndsWith(t, p) == Len(t) >= Len(p) /\ SubSeq(t, Len(t) - Len(p) + 1, Len(t)) = p

Range(f) == {f[i] : i \in DOMAIN f}

\* the literal the message is compared with in _detect_stage and _handle_admin
StopWord == <<"s", "t", "o", "p">>

IsStopNoStrip(message) == Lower(message) = StopWord

IsStopNoLower(message) == Strip(message) = StopWord

\* message.strip().lower() == <stop>
IsStop(message) == Lower(Strip(message)) = StopWord

\* prefix = "[<Demonstration>] " in _handle_demo
Prefix == <<"[", "Demo", "]", " ">>


---------------------------------------------------------------------------
(* JSON texts returned by the demo_setup agent, and their parsing *)

RequiredFields == {"niche", "company_name", "persona_instruction", "welcome_message"}

\* a token "key:value" stands for one  "key": "value"  member of a JSON object
PairTokens ==
    {"niche:A", "niche:B", "company_name:A", "persona_instruction:A",
     "welcome_message:A"}

PairKey(tok) ==
    CASE tok \in {"niche:A", "niche:B"} -> "niche"
      [] tok = "company_name:A" -> "company_name"
      [] tok = "persona_instruction:A" -> "persona_instruction"
      [] OTHER -> "welcome_message"

PairValue(tok) == IF tok = "niche:B" THEN "B" ELSE "A"

EmptyDict == [k \in {} |-> "A"]

\* Python values a parse can yield: None, a dict, a number
NoneValue == [kind |-> "none", d |-> EmptyDict, n |-> 0]

DictValue(d) == [kind |-> "dict", d |-> d, n |-> 0]

NumValue(n) == [kind |-> "num", d |-> EmptyDict, n |-> n]

\* Python truthiness: if config, if not config
Truthy(v) ==
    \/ v.kind = "dict" /\ DOMAIN v.d # {}
    \/ v.kind = "num" /\ v.n # 0

\* the members of an object text between its braces; a later member wins
MembersDict(body) ==
    LET keys == {PairKey(body[i]) : i \in DOMAIN body}
        last(k) == CHOOSE i \in DOMAIN body :
                      /\ PairKey(body[i]) = k
                      /\ \A j \in DOMAIN body : PairKey(body[j]) = k => j <= i
    IN  [k \in keys |-> PairValue(body[last(k)])]

\* json.loads: [ok |-> FALSE] stands for JSONDecodeError
JsonLoads(text) ==
    LET t == Strip(text)
    IN  IF t = <<"7">> THEN [ok |-> TRUE, value |-> NumValue(7)]
        ELSE IF t = <<"0">> THEN [ok |-> TRUE, value |-> NumValue(0)]
        ELSE IF /\ Len(t) >= 2
                /\ t[1] = "{"
                /\ t[Len(t)] = "}"
                /\ \A i \in 2..(Len(t) - 1) : t[i] \in PairTokens
        THEN [ok |-> TRUE, value |-> DictValue(MembersDict(SubSeq(t, 2, Len(t) - 1)))]
        ELSE [ok |-> FALSE, value |-> NoneValue]

\* index of the first / last occurrence of a token, 0 when there is none
\* (str.find / str.rfind return -1)
Find(t, c) ==
    IF \E i \in DOMAIN t : t[i] = c
    THEN CHOOSE i \in DOMAIN t : t[i] = c /\ \A j \in 1..(i - 1) : t[j] # c
    ELSE 0

RFind(t, c) ==
    IF \E i \in DOMAIN t : t[i] = c
    THEN CHOOSE i \in DOMAIN t : t[i] = c /\ \A j \in (i + 1)..Len(t) : t[j] # c
    ELSE 0

\* lines = text.split("\n"); "\n".join(lines[1:]) when there is more than one line
DropFirstLine(t) ==
    IF Find(t, "NL") = 0 THEN t ELSE SubSeq(t, Find(t, "NL") + 1, Len(t))

\* the token FENCE stands for the three backquotes of a markdown code fence
Fence == <<"FENCE">>

\* the removal of the markdown code fence in _parse_json_from_response
StripFence(t) ==
    IF StartsWith(t, Fence)
    THEN LET u == DropFirstLine(t)
         IN  IF EndsWith(u, Fence) THEN Strip(SubSeq(u, 1, Len(u) - 1)) ELSE u
    ELSE t

ParseJsonNoFallback(response_text) ==
    IF Strip(response_text) = <<>> THEN NoneValue
    ELSE LET first == JsonLoads(StripFence(Strip(response_text)))
         IN  IF first.ok THEN first.value ELSE NoneValue

\* MainGraph._parse_json_from_response
ParseJsonFromResponse(response_text) ==
    IF Strip(response_text) = <<>> THEN NoneValue
    ELSE LET t == StripFence(Strip(response_text))
             first == JsonLoads(t)
             start_idx == Find(t, "{")
             end_idx == RFind(t, "}")
             second == JsonLoads(SubSeq(t, start_idx, end_idx))
         IN  IF first.ok THEN first.value
             ELSE IF start_idx # 0 /\ end_idx # 0 /\ end_idx > start_idx /\ second.ok
                  THEN second.value
                  ELSE NoneValue

MissingFieldsOnlyNiche(config) == {"niche"} \ DOMAIN config.d

MissingFieldsUnchecked(config) == {}

\* missing_fields = [field for field in required_fields if field not in config]
MissingFields(config) == RequiredFields \ DOMAIN config.d

---------------------------------------------------------------------------
(* Sessions and the graph state *)

\* chat ids: a numeric Telegram chat id and a web-session identifier
ChatIds == {"7", "u1"}

IsNumeric(chat_id) == chat_id \in {"7"}

\* telegram_user_id = int(chat_id), 0 when chat_id is no number;
\* thread_id = str(telegram_user_id)
ThreadId(chat_id) == IF IsNumeric(chat_id) THEN chat_id ELSE "0"

Threads == {ThreadId(c) : c \in ChatIds}

\* the channels of ConversationState before anything was written to them
EmptyState ==
    [message        |-> <<>>,
     chat_id        |-> "None",
     stage          |-> "None",
     messages       |-> <<>>,
     admin_messages |-> <<>>,
     demo_messages  |-> <<>>,
     demo_config    |-> NoneValue,
     answer         |-> <<>>,
     manager_alert  |-> "None",
     agent_name     |-> "None",
     used_tools     |-> <<>>]

NoCheckpoint == [exists |-> FALSE, values |-> EmptyState]

\* a checkpoint of the graph state.  Every input writes the channel message
\* before a node reads it, so the text an earlier turn left there is not kept.
Checkpoint(values) == [exists |-> TRUE, values |-> [values EXCEPT !.message = <<>>]]

\* a history entry; the record is the message's identity
Msg(role, by, turn) == [role |-> role, by |-> by, turn |-> turn]

AddMessagesOverwrite(old, new) == new

\* reducer of the history channels: entries already present keep their place,
\* the others are appended
AddMessages(old, new) == old \o SelectSeq(new, LAMBDA e : e \notin Range(old))

\* the graph state after a node returned out
ApplyNode(state, out) ==
    [out EXCEPT !.messages       = AddMessages(state.messages, out.messages),
                !.admin_messages = AddMessages(state.admin_messages, out.admin_messages),
                !.demo_messages  = AddMessages(state.demo_messages, out.demo_messages)]

---------------------------------------------------------------------------
(* The conversational agents (external collaborators) *)

\* what an agent's answer text looks like
Shapes == {"empty", "plain", "prefixed"}

\* the word by which the text of each agent is told from the others
Body(agent) ==
    CASE agent = "AdminAgent" -> "a"
      [] agent = "DemoAgent" -> "d"
      [] agent = "DemoAgentWithConfig" -> "c"
      [] OTHER -> "q"

ReplyText(agent, shape) ==
    CASE shape = "empty" -> <<>>
      [] shape = "plain" -> <<Body(agent)>>
      [] OTHER -> Prefix \o <<Body(agent)>>

\* texts the demo_setup agent may return when asked for a configuration
FullA == <<"niche:A", "company_name:A", "persona_instruction:A", "welcome_message:A">>

FullB == <<"niche:B", "company_name:A", "persona_instruction:A", "welcome_message:A">>

SetupReplies ==
    { <<" ", "NL">>,
      <<"x">>,
      <<"7">>,
      <<"{", "}">>,
      <<"}", "x", "{">>,
      <<"{", "niche:A", "company_name:A", "persona_instruction:A", "}">>,
      <<"{">> \o FullA \o <<"}">>,
      <<"FENCE", "x", "NL", "{">> \o FullA \o <<"}", "NL", "FENCE">>,
      <<"x", " ", "{">> \o FullB \o <<"}", " ", "x">> }

\* user_message and manager_alert of the agent's _call_manager_result
EscUserMessage == <<"mgr">>

EscAlert == "AL"

\* a manager_alert carried by the run result itself
BareAlert == "AL2"

\* one outcome of agent.run: it raises, or it returns a reply of some shape,
\* the names of the tools it invoked and whether CallManager was invoked
\* (esc = "cmr": with _call_manager_result set on the agent; "bare": without)
Outcome(shape, tools, esc) ==
    [raised |-> FALSE, shape |-> shape, tools |-> tools, esc |-> esc]

RaiseOutcome == [raised |-> TRUE, shape |-> "empty", tools |-> <<>>, esc |-> "no"]

SwitchTool == <<"SwitchToDemoTool">>

AdminOutcomes ==
    { RaiseOutcome,
      Outcome("empty", <<>>, "no"),
      Outcome("plain", <<>>, "no"),
      Outcome("empty", SwitchTool, "no"),
      Outcome("plain", SwitchTool, "no"),
      Outcome("plain", <<>>, "cmr"),
      Outcome("plain", SwitchTool, "cmr"),
      Outcome("plain", <<>>, "bare") }

\* DemoAgent is built with tools=[]
DemoOutcomes ==
    {RaiseOutcome, Outcome("plain", <<>>, "cmr")}
    \cup {Outcome(sh, <<>>, "no") : sh \in Shapes}

SetupOutcome(text, esc) == [raised |-> FALSE, text |-> text, esc |-> esc]

SetupOutcomes ==
    {[raised |-> TRUE, text |-> <<>>, esc |-> "no"]}
    \cup {SetupOutcome(t, "no") : t \in SetupReplies}
    \cup {SetupOutcome(<<"x">>, "cmr"), SetupOutcome(<<"{">> \o FullA \o <<"}">>, "cmr")}

\* the result dict of agent.run(message, history, chat_id) for an outcome
RunResult(agent_name, reply, o, turn) ==
    [raised           |-> o.raised,
     reply            |-> reply,
     tool_names       |-> IF "tools" \in DOMAIN o THEN o.tools ELSE <<>>,
     call_manager     |-> o.esc # "no",
     has_cmr          |-> o.esc = "cmr",
     cmr_user_message |-> EscUserMessage,
     cmr_alert        |-> EscAlert,
     manager_alert    |-> IF o.esc = "bare" THEN BareAlert ELSE "None",
     messages         |-> << Msg("user", agent_name, turn),
                             Msg("assistant", agent_name, turn) >>]

\* one record of the call log
Call(agent, history, config, r) ==
    [agent |-> agent, history |-> history, config |-> config, r |-> r]

---------------------------------------------------------------------------
(* The nodes and routers of MainGraph *)

DetectStageAnyStage(state) ==
    IF IsStop(state.message) THEN "admin"
    ELSE IF state.stage # "None" THEN state.stage
    ELSE "admin"

DetectStageNoStop(state) ==
    IF state.stage # "None" THEN state.stage ELSE "admin"

DetectStageDefaultDemo(state) ==
    IF state.stage = "demo" /\ IsStop(state.message) THEN "admin"
    ELSE IF state.stage # "None" THEN state.stage
    ELSE "demo"

\* MainGraph._detect_stage: the value it returns for the channel stage
DetectStage(state) ==
    IF state.stage = "demo" /\ IsStop(state.message) THEN "admin"
    ELSE IF state.stage # "None" THEN state.stage
    ELSE "admin"

ValidStages == {"admin", "demo", "demo_setup"}

\* MainGraph._route_after_detect
RouteAfterDetect(state) ==
    IF state.stage \notin ValidStages THEN "admin" ELSE state.stage

RouteAfterAdminNever(state) == "end"

RouteAfterAdminAlways(state) == "demo"

\* MainGraph._route_after_admin
RouteAfterAdmin(state) ==
    IF "SwitchToDemoTool" \in Range(state.used_tools) THEN "demo" ELSE "end"

ProcessAgentResultNoEscalation(r, state, agent_name) ==
    LET upd == CASE agent_name = "DemoSetupAgent" -> [state EXCEPT !.messages = r.messages]
                 [] agent_name = "AdminAgent" -> [state EXCEPT !.admin_messages = r.messages]
                 [] OTHER -> [state EXCEPT !.demo_messages = r.messages]
    IN  [upd EXCEPT !.answer = r.reply,
                    !.agent_name = agent_name,
                    !.used_tools = r.tool_names]

ProcessAgentResultDropsConfig(r, state, agent_name) ==
    LET base == [state EXCEPT !.demo_config = NoneValue]
        upd == CASE agent_name = "DemoSetupAgent" -> [base EXCEPT !.messages = r.messages]
                 [] agent_name = "AdminAgent" -> [base EXCEPT !.admin_messages = r.messages]
                 [] OTHER -> [base EXCEPT !.demo_messages = r.messages]
    IN  IF r.call_manager
        THEN [upd EXCEPT
                !.answer = IF r.has_cmr THEN r.cmr_user_message ELSE r.reply,
                !.manager_alert = IF r.has_cmr THEN r.cmr_alert ELSE r.manager_alert,
                !.agent_name = agent_name,
                !.used_tools = r.tool_names]
        ELSE [upd EXCEPT !.answer = r.reply,
                         !.agent_name = agent_name,
                         !.used_tools = r.tool_names]

\* MainGraph._process_agent_result, after agent.run returned r
ProcessAgentResult(r, state, agent_name) ==
    LET upd == CASE agent_name = "DemoSetupAgent" -> [state EXCEPT !.messages = r.messages]
                 [] agent_name = "AdminAgent" -> [state EXCEPT !.admin_messages = r.messages]
                 [] OTHER -> [state EXCEPT !.demo_messages = r.messages]
    IN  IF r.call_manager
        THEN [upd EXCEPT
                !.answer = IF r.has_cmr THEN r.cmr_user_message ELSE r.reply,
                !.manager_alert = IF r.has_cmr THEN r.cmr_alert ELSE r.manager_alert,
                !.agent_name = agent_name,
                !.used_tools = r.tool_names]
        ELSE [upd EXCEPT !.answer = r.reply,
                         !.agent_name = agent_name,
                         !.used_tools = r.tool_names]

\* what a handler hands back: the dict it returns, or the exception it lets
\* through, and the agent calls it made
Returned(out, cs) == [raised |-> FALSE, out |-> out, calls |-> cs]

Raised(state, cs) == [raised |-> TRUE, out |-> state, calls |-> cs]

StopNote(turn) == Msg("system", "stop_note", turn)

\* MainGraph._handle_admin; o is the outcome of the admin agent's run
HandleAdmin(state, o, turn) ==
    LET r == RunResult("AdminAgent", ReplyText("AdminAgent", o.shape), o, turn)
        c == Call("AdminAgent", state.admin_messages, NoneValue, r)
        result == ProcessAgentResult(r, state, "AdminAgent")
    IN  IF r.raised THEN Raised(state, <<c>>)
        ELSE IF IsStop(state.message) /\ Truthy(state.demo_config)
        THEN Returned([result EXCEPT !.admin_messages = @ \o <<StopNote(turn)>>], <<c>>)
        ELSE Returned(result, <<c>>)

\* MainGraph._handle_demo_setup
HandleDemoSetup(state, so, turn) ==
    LET r == RunResult("DemoSetupAgent", so.text, so, turn)
        c == Call("DemoSetupAgent", state.messages, NoneValue, r)
        result == ProcessAgentResult(r, state, "DemoSetupAgent")
    IN  IF r.raised THEN Raised(state, <<c>>)
        ELSE Returned([result EXCEPT !.stage = "demo_setup"], <<c>>)

DecorateAlways(answer) == Prefix \o answer

DecorateNever(answer) == answer

\* the demo marker of _handle_demo: added to a non-empty answer that does not
\* start with it
Decorate(answer) ==
    IF answer # <<>> /\ ~StartsWith(answer, Prefix) THEN Prefix \o answer ELSE answer

DemoFallbackNoStage(state, do, turn, cs) ==
    LET r == RunResult("DemoAgent", ReplyText("DemoAgent", do.shape), do, turn)
        c == Call("DemoAgent", state.demo_messages, NoneValue, r)
        result == ProcessAgentResult(r, state, "DemoAgent")
    IN  IF r.raised THEN Raised(state, cs \o <<c>>)
        ELSE Returned(result, cs \o <<c>>)

DemoFallbackShowsSetup(state, do, turn, cs) ==
    LET r == RunResult("DemoAgent", ReplyText("DemoAgent", do.shape), do, turn)
        c == Call("DemoAgent", state.demo_messages, NoneValue, r)
        result == ProcessAgentResult(r, state, "DemoAgent")
    IN  IF r.raised THEN Raised(state, cs \o <<c>>)
        ELSE Returned([result EXCEPT !.stage = "demo",
                                     !.answer = cs[Len(cs)].r.reply], cs \o <<c>>)

DemoFallbackToSetup(state, do, turn, cs) ==
    LET r == RunResult("DemoAgent", ReplyText("DemoAgent", do.shape), do, turn)
        c == Call("DemoAgent", state.demo_messages, NoneValue, r)
        result == ProcessAgentResult(r, state, "DemoAgent")
    IN  IF r.raised THEN Raised(state, cs \o <<c>>)
        ELSE Returned([result EXCEPT !.stage = "demo_setup"], cs \o <<c>>)

\* the two fallback branches of _handle_demo: the cached demo agent, no marker,
\* no configuration stored
DemoFallback(state, do, turn, cs) ==
    LET r == RunResult("DemoAgent", ReplyText("DemoAgent", do.shape), do, turn)
        c == Call("DemoAgent", state.demo_messages, NoneValue, r)
        result == ProcessAgentResult(r, state, "DemoAgent")
    IN  IF r.raised THEN Raised(state, cs \o <<c>>)
        ELSE Returned([result EXCEPT !.stage = "demo"], cs \o <<c>>)

\* the end of _handle_demo: an agent built from config by
\* create_demo_actor_agent_with_config
DemoConfigured(state, config, do, turn, cs) ==
    LET r == RunResult("DemoAgent", ReplyText("DemoAgentWithConfig", do.shape), do, turn)
        c == Call("DemoAgentWithConfig", state.demo_messages, config, r)
        result == ProcessAgentResult(r, state, "DemoAgent")
    IN  IF r.raised THEN Raised(state, cs \o <<c>>)
        ELSE Returned([result EXCEPT !.answer = Decorate(@),
                                     !.stage = "demo",
                                     !.demo_config = config], cs \o <<c>>)

HandleDemoAlwaysSetup(state, so, do, turn) ==
    IF TRUE
    THEN LET sr == RunResult("DemoSetupAgent", so.text, so, turn)
             sc == Call("DemoSetupAgent", state.messages, NoneValue, sr)
             config == ParseJsonFromResponse(sr.reply)
         IN  IF sr.raised THEN Raised(state, <<sc>>)
             ELSE IF ~Truthy(config) THEN DemoFallback(state, do, turn, <<sc>>)
             \* field not in config raises TypeError when config is a number
             ELSE IF config.kind # "dict" THEN Raised(state, <<sc>>)
             ELSE IF MissingFields(config) # {} THEN DemoFallback(state, do, turn, <<sc>>)
             ELSE DemoConfigured(state, config, do, turn, <<sc>>)
    ELSE DemoConfigured(state, state.demo_config, do, turn, <<>>)

HandleDemoSetupOnce(state, so, do, turn) ==
    IF ~Truthy(state.demo_config) /\ state.stage = "demo"
    THEN DemoFallback(state, do, turn, <<>>)
    ELSE IF ~Truthy(state.demo_config)
    THEN LET sr == RunResult("DemoSetupAgent", so.text, so, turn)
             sc == Call("DemoSetupAgent", state.messages, NoneValue, sr)
             config == ParseJsonFromResponse(sr.reply)
         IN  IF sr.raised THEN Raised(state, <<sc>>)
             ELSE IF ~Truthy(config) THEN DemoFallback(state, do, turn, <<sc>>)
             ELSE IF config.kind # "dict" THEN Raised(state, <<sc>>)
             ELSE IF MissingFields(config) # {} THEN DemoFallback(state, do, turn, <<sc>>)
             ELSE DemoConfigured(state, config, do, turn, <<sc>>)
    ELSE DemoConfigured(state, state.demo_config, do, turn, <<>>)

\* MainGraph._handle_demo; so and do are the outcomes of the demo_setup agent's
\* and of the demo agent's run, for the calls the handler makes
HandleDemo(state, so, do, turn) ==
    IF ~Truthy(state.demo_config)
    THEN LET sr == RunResult("DemoSetupAgent", so.text, so, turn)
             sc == Call("DemoSetupAgent", state.messages, NoneValue, sr)
             config == ParseJsonFromResponse(sr.reply)
         IN  IF sr.raised THEN Raised(state, <<sc>>)
             ELSE IF ~Truthy(config) THEN DemoFallback(state, do, turn, <<sc>>)
             \* field not in config raises TypeError when config is a number
             ELSE IF config.kind # "dict" THEN Raised(state, <<sc>>)
             ELSE IF MissingFields(config) # {} THEN DemoFallback(state, do, turn, <<sc>>)
             ELSE DemoConfigured(state, config, do, turn, <<sc>>)
    ELSE DemoConfigured(state, state.demo_config, do, turn, <<>>)

---------------------------------------------------------------------------
(* Construction of the graph *)

AgentNames == {"stage_detector", "admin", "demo", "demo_setup"}

MainGraphInitChecksLast(cache, checkpointer) ==
    LET filled == IF cache = {} THEN AgentNames ELSE cache
    IN  IF checkpointer = "None"
        THEN [raised |-> TRUE, cache |-> filled, compiled |-> TRUE]
        ELSE [raised |-> FALSE, cache |-> filled, compiled |-> TRUE]

\* MainGraph.__init__: the test of the checkpointer, then the agents of the
\* cache entry of the LangGraphService (created when the entry is missing),
\* then the compilation; raised stands for ValueError
MainGraphInit(cache, checkpointer) ==
    IF checkpointer = "None"
    THEN [raised |-> TRUE, cache |-> cache, compiled |-> FALSE]
    ELSE [raised |-> FALSE,
          cache |-> IF cache = {} THEN AgentNames ELSE cache,
          compiled |-> TRUE]

\* create_main_graph
CreateMainGraph(cache, checkpointer) ==
    IF checkpointer = "None"
    THEN [raised |-> TRUE, cache |-> cache, compiled |-> FALSE]
    ELSE MainGraphInit(cache, checkpointer)

---------------------------------------------------------------------------
(* SessionConfigService and its table session_configs *)

MaxClock == 1

\* the thread identifiers and user identifiers the service is called with
ConfigIds == Threads

UserIds == {"42"}

\* dict.get(key): None when the key is missing
Get(d, k) == IF k \in DOMAIN d THEN d[k] ELSE "None"

\* the values of the statement of save_demo_config; created_at is written by
\* the insert only and selected by nothing, it is left out
Row(thread_id, user_id, config_data, t) ==
    [id                  |-> thread_id,
     user_id             |-> user_id,
     company_name        |-> Get(config_data, "company_name"),
     niche               |-> Get(config_data, "niche"),
     persona_instruction |-> Get(config_data, "persona_instruction"),
     welcome_message     |-> Get(config_data, "welcome_message"),
     updated_at          |-> t]

InsertOnly(table, row) == table \cup {row}

\* INSERT ... ON CONFLICT (id) DO UPDATE SET ...
Upsert(table, row) == {r \in table : r.id # row.id} \cup {row}

\* save_demo_config at time t; db_ok: the connection and the statement succeed
SaveDemoConfig(table, thread_id, user_id, config_data, db_ok, t) ==
    IF db_ok
    THEN [ok |-> TRUE, table |-> Upsert(table, Row(thread_id, user_id, config_data, t))]
    ELSE [ok |-> FALSE, table |-> table]

SelectedSwapped(r) ==
    [id                  |-> r.id,
     user_id             |-> r.user_id,
     company_name        |-> r.niche,
     niche               |-> r.company_name,
     persona_instruction |-> r.persona_instruction,
     welcome_message     |-> r.welcome_message]

\* the columns load_demo_config selects
Selected(r) ==
    [id                  |-> r.id,
     user_id             |-> r.user_id,
     company_name        |-> r.company_name,
     niche               |-> r.niche,
     persona_instruction |-> r.persona_instruction,
     welcome_message     |-> r.welcome_message]

NoRecord == Selected(Row("None", "None", EmptyDict, 0))

\* load_demo_config: the row fetchone gives, NoRecord for None
LoadDemoConfig(table, thread_id, db_ok) ==
    IF db_ok /\ \E r \in table : r.id = thread_id
    THEN Selected(CHOOSE r \in table : r.id = thread_id)
    ELSE NoRecord

\* SessionConfigService._parse_json_from_response: the same statements as
\* MainGraph._parse_json_from_response
ServiceParseJson(response_text) == ParseJsonFromResponse(response_text)

ProcessSetupResponseRetries(table, thread_id, user_id, response_text, db_ok, t) ==
    LET config_data == ServiceParseJson(response_text)
        saved == SaveDemoConfig(table, thread_id, user_id, config_data.d, db_ok, t)
    IN  IF \/ ~Truthy(config_data)
           \/ config_data.kind # "dict"
           \/ MissingFields(config_data) # {}
        THEN [result |-> NoneValue, attempts |-> 0, table |-> table]
        ELSE [result   |-> IF saved.ok THEN config_data ELSE NoneValue,
              attempts |-> IF saved.ok THEN 1 ELSE 2,
              table    |-> saved.table]

\* process_setup_response: what it returns, how often it called
\* save_demo_config, and the table it leaves.  A parsed value that is no dict
\* raises TypeError at the test of the fields, which except Exception turns
\* into None.
ProcessSetupResponse(table, thread_id, user_id, response_text, db_ok, t) ==
    LET config_data == ServiceParseJson(response_text)
        saved == SaveDemoConfig(table, thread_id, user_id, config_data.d, db_ok, t)
    IN  IF \/ ~Truthy(config_data)
           \/ config_data.kind # "dict"
           \/ MissingFields(config_data) # {}
        THEN [result |-> NoneValue, attempts |-> 0, table |-> table]
        ELSE [result   |-> IF saved.ok THEN config_data ELSE NoneValue,
              attempts |-> 1,
              table    |-> saved.table]

\* responses the service is given
ServiceTexts ==
    { <<"x">>,
      <<"7">>,
      <<"{", "niche:A", "company_name:A", "persona_instruction:A", "}">>,
      <<"{">> \o FullA \o <<"}">>,
      <<"FENCE", "x", "NL", "{">> \o FullB \o <<"}", "NL", "FENCE">> }

\* configurations save_demo_config is given directly
FullDict(niche) ==
    [k \in RequiredFields |-> IF k = "niche" THEN niche ELSE "A"]

ServiceDatas == {[k \in {"niche"} |-> "A"]}

NoCall ==
    [op |-> "none", thread_id |-> "None", text |-> <<>>, db_ok |-> TRUE,
     result |-> NoneValue, ok |-> FALSE, attempts |-> 0, existed |-> FALSE]

---------------------------------------------------------------------------
(* The sample revision (directory Obrazec of the repository): the stage is *)
(* kept in table dialog_states, the demo configuration in session_configs  *)

SampleChats == {"7", "u1"}

SampleIdle ==
    [pc |-> "idle", chat_id |-> "None", stop |-> FALSE, stage |-> "None",
     switched |-> FALSE, path |-> "none"]

\* DialogStateStorage.set_stage inside try / except: the write, or nothing
\* when the query raises
SetStage(states, chat_id, stage, ydb_ok) ==
    IF ydb_ok THEN [states EXCEPT ![chat_id] = stage] ELSE states

\* texts the demo_setup agent returns in the sample revision
SampleSetupReplies ==
    { <<"x">>,
      <<"{", "company_name:A", "}">>,
      <<"{">> \o FullA \o <<"}">> }

\* json.loads(response_text), then _extract_json_from_text
SampleParseJson(response_text) ==
    LET first == JsonLoads(response_text)
        start_idx == Find(response_text, "{")
        end_idx == RFind(response_text, "}")
        second == JsonLoads(SubSeq(response_text, start_idx, end_idx))
    IN  IF first.ok THEN first.value
        ELSE IF start_idx # 0 /\ end_idx # 0 /\ end_idx > start_idx /\ second.ok
             THEN second.value
             ELSE NoneValue

\* process_setup_response of the sample revision: the configuration it
\* returns (the saved one, loaded back) and the configurations it leaves
SampleProcessSetupResponse(configs, thread_id, response_text, save_ok) ==
    LET config_data == SampleParseJson(response_text)
    IN  IF \/ ~Truthy(config_data)
           \/ config_data.kind # "dict"
           \/ "niche" \notin DOMAIN config_data.d
           \/ ~save_ok
        THEN [result |-> NoneValue, configs |-> configs]
        ELSE [result |-> config_data,
              configs |-> [configs EXCEPT ![thread_id] = config_data]]

---------------------------------------------------------------------------
(* Two sessions on the cached agents *)

\* two chats with thread identifiers of their own
SharedSessions == {"7", "8"}

\* the entries of MainGraph._agents_cache that handlers pass to
\* _process_agent_result
SharedAgents == {"admin", "demo"}

NoPayload == [user_message |-> <<>>, manager_alert |-> "None"]

\* what CallManager produces in the run made for a session
PayloadOf(session) == [user_message |-> <<"mgr", session>>, manager_alert |-> session]

NoRun ==
    [pc |-> "idle", agent |-> "None", call_manager |-> FALSE,
     answer |-> <<>>, manager_alert |-> "None"]

\* no agent has escalated yet, no turn is in flight
SharedIdle ==
    [attr |-> [a \in SharedAgents |-> NoPayload],
     run  |-> [s \in SharedSessions |-> NoRun]]

\* the answer and the alert _process_agent_result takes once run has returned:
\* with call_manager in the result, the fields of agent._call_manager_result
\* as the attribute is at that moment
EscalationResult(attr, session, agent, call_manager) ==
    IF call_manager
    THEN [answer |-> attr[agent].user_message,
          manager_alert |-> attr[agent].manager_alert]
    ELSE [answer |-> <<"reply", session>>, manager_alert |-> "None"]

---------------------------------------------------------------------------
(* The service: turns and resets *)

\* user texts: the stop command, the stop command in mixed case with blanks
\* around it, and another message
Messages ==
    { <<"s", "t", "o", "p">>,
      <<" ", "S", "t", "O", "P", "NL">>,
      <<"s", "t", "o", "p", "x">> }

\* the fixed text send_to_agent_langgraph returns when the turn raised
Apology == <<"sorry">>

\* a checkpoint left on the thread of the web sessions by an earlier
\* deployment, whose stage the graph itself does not set
LegacyCheckpoint == Checkpoint([EmptyState EXCEPT !.stage = "demo_setup", !.chat_id = "u1"])

\* nothing built, no overlapping turn, empty tables, no call made
InitSide ==
    /\ overlap = NoCheckpoint
    /\ agents_cache = {}
    /\ compiled = FALSE
    /\ session_configs = {}
    /\ now = 0
    /\ svc = NoCall
    /\ dialog_states = [c \in SampleChats |-> "None"]
    /\ sample_configs = [c \in SampleChats |-> NoneValue]
    /\ sample = SampleIdle
    /\ shared = SharedIdle

Init ==
    /\ store = [t \in Threads |-> IF t = "0" THEN LegacyCheckpoint ELSE NoCheckpoint]
    /\ pc = "idle"
    /\ cur = EmptyState
    /\ restored = NoCheckpoint
    /\ calls = <<>>
    /\ turns = 0
    /\ InitSide

\* the number of user messages the thread has received
TurnNo(state) ==
    Cardinality({i \in DOMAIN state.messages : state.messages[i].by = "input"})

InputStateReplacesMessages(snapshot, chat_id, user_text) ==
    [snapshot.values EXCEPT
        !.messages      = <<Msg("user", "input", TurnNo(snapshot.values) + 1)>>,
        !.message       = user_text,
        !.chat_id       = chat_id,
        !.answer        = <<>>,
        !.manager_alert = "None"]

InputStateKeepsAlert(snapshot, chat_id, user_text) ==
    [snapshot.values EXCEPT
        !.messages      = @ \o <<Msg("user", "input", TurnNo(snapshot.values) + 1)>>,
        !.message       = user_text,
        !.chat_id       = chat_id,
        !.answer        = <<>>]

\* the state the graph starts a turn with: the thread's latest checkpoint with
\* input_data written over it
InputState(snapshot, chat_id, user_text) ==
    [snapshot.values EXCEPT
        !.messages      = @ \o <<Msg("user", "input", TurnNo(snapshot.values) + 1)>>,
        !.message       = user_text,
        !.chat_id       = chat_id,
        !.answer        = <<>>,
        !.manager_alert = "None"]

SaveMerging(state) ==
    LET stored == store[ThreadId(state.chat_id)].values
        merged == [state EXCEPT
                      !.messages       = AddMessages(stored.messages, @),
                      !.admin_messages = AddMessages(stored.admin_messages, @),
                      !.demo_messages  = AddMessages(stored.demo_messages, @)]
    IN  store' = [store EXCEPT ![ThreadId(state.chat_id)] = Checkpoint(merged)]

\* the checkpointer's put: the state of the run becomes the thread's latest
\* checkpoint, whatever the thread held
Save(state) == store' = [store EXCEPT ![ThreadId(state.chat_id)] = Checkpoint(state)]

\* send_to_agent_langgraph up to the start of the graph: the checkpointer is
\* opened, create_main_graph builds and compiles the graph, ainvoke restores
\* the thread and applies the input
SendToAgent(chat_id, user_text) ==
    /\ pc = "idle"
    /\ turns < MaxTurns
    /\ turns' = turns + 1
    /\ LET app == CreateMainGraph(agents_cache, "checkpointer")
       IN  /\ ~app.raised
           /\ agents_cache' = app.cache
           /\ compiled' = app.compiled
    /\ restored' = store[ThreadId(chat_id)]
    /\ cur' = InputState(store[ThreadId(chat_id)], chat_id, user_text)
    /\ Save(cur')
    /\ calls' = <<>>
    /\ pc' = "detect_stage"
    /\ UNCHANGED <<overlap, sideVars>>

\* send_to_agent_langgraph when get_postgres_checkpointer raises: nothing is
\* built or restored, the graph does not run, the store is not written
CheckpointerUnavailable(chat_id, user_text) ==
    /\ pc = "idle"
    /\ turns < MaxTurns
    /\ turns' = turns + 1
    /\ restored' = NoCheckpoint
    /\ cur' = EmptyState
    /\ calls' = <<>>
    /\ pc' = "unavailable"
    /\ UNCHANGED <<store, overlap, agents_cache, compiled, sideVars>>

\* send_to_agent_langgraph when the checkpointer it is handed is None:
\* create_main_graph raises, the except branch ends the turn
CreateMainGraphRaises(chat_id, user_text) ==
    /\ pc = "idle"
    /\ turns < MaxTurns
    /\ turns' = turns + 1
    /\ LET app == CreateMainGraph(agents_cache, "None")
       IN  /\ app.raised
           /\ agents_cache' = app.cache
           /\ compiled' = app.compiled
    /\ restored' = NoCheckpoint
    /\ cur' = EmptyState
    /\ calls' = <<>>
    /\ pc' = "no_graph"
    /\ UNCHANGED <<store, overlap, sideVars>>

NodeOf(route) ==
    CASE route = "admin" -> "handle_admin"
      [] route = "demo" -> "handle_demo"
      [] route = "demo_setup" -> "handle_demo_setup"
      [] OTHER -> "end"

\* node detect_stage and the conditional edge after it
DetectStageStep ==
    /\ pc = "detect_stage"
    /\ cur' = [cur EXCEPT !.stage = DetectStage(cur)]
    /\ Save(cur')
    /\ pc' = NodeOf(RouteAfterDetect(cur'))
    /\ UNCHANGED <<restored, calls, turns, overlap, agents_cache, compiled, sideVars>>

\* a node that ran a handler: its result is merged and stored, or the
\* exception ends the graph run with the store as the last node left it
Finish(h, next_if_ok) ==
    /\ calls' = calls \o h.calls
    /\ IF h.raised
       THEN /\ pc' = "failed"
            /\ UNCHANGED <<cur, store>>
       ELSE /\ cur' = ApplyNode(cur, h.out)
            /\ Save(cur')
            /\ pc' = next_if_ok
    /\ UNCHANGED <<restored, turns, overlap, agents_cache, compiled, sideVars>>

\* node handle_admin and the conditional edge after it
HandleAdminStep ==
    /\ pc = "handle_admin"
    /\ \E o \in AdminOutcomes :
          LET h == HandleAdmin(cur, o, TurnNo(cur))
          IN  Finish(h, NodeOf(RouteAfterAdmin(ApplyNode(cur, h.out))))

\* node handle_demo
HandleDemoStep ==
    /\ pc = "handle_demo"
    /\ \E so \in SetupOutcomes, do \in DemoOutcomes :
          Finish(HandleDemo(cur, so, do, TurnNo(cur)), "end")

\* node handle_demo_setup
HandleDemoSetupStep ==
    /\ pc = "handle_demo_setup"
    /\ \E so \in SetupOutcomes :
          Finish(HandleDemoSetup(cur, so, TurnNo(cur)), "end")

UserMessageCount(messages) ==
    Cardinality({i \in DOMAIN messages : messages[i].role = "user"})

\* what send_to_agent_langgraph returns after ainvoke returned final_state
Response(final_state) ==
    [user_message     |-> final_state.answer,
     is_first_message |-> UserMessageCount(final_state.messages) = 1,
     manager_alert    |-> final_state.manager_alert]

\* what send_to_agent_langgraph returns when the graph run raised
ErrorResponse == [user_message |-> Apology, is_first_message |-> FALSE, manager_alert |-> "None"]

SendToAgentResultNoExcept == Response(cur)

SendToAgentResultStale == Response(restored.values)

\* what send_to_agent_langgraph returns at the end of the turn in flight: the
\* response built from final_state, or the one of the except branch when the
\* checkpointer could not be opened or the graph run raised
SendToAgentResult == IF pc = "end" THEN Response(cur) ELSE ErrorResponse

\* the turn is over and SendToAgentResult is handed to the caller
Return ==
    /\ pc \in {"end", "failed", "unavailable", "no_graph"}
    /\ pc' = "idle"
    /\ cur' = EmptyState
    /\ restored' = NoCheckpoint
    /\ calls' = <<>>
    /\ overlap' = NoCheckpoint
    /\ compiled' = FALSE
    /\ UNCHANGED <<store, turns, agents_cache, sideVars>>

ResetContextStageOnly(chat_id) ==
    /\ pc = "idle"
    /\ store' = [store EXCEPT ![ThreadId(chat_id)] = [@ EXCEPT !.values.stage = "None"]]
    /\ UNCHANGED <<pc, cur, restored, calls, turns, overlap, agents_cache, compiled, sideVars>>

\* AgentService.reset_context: every checkpoint of the thread is deleted
ResetContext(chat_id) ==
    /\ pc = "idle"
    /\ store' = [store EXCEPT ![ThreadId(chat_id)] = NoCheckpoint]
    /\ UNCHANGED <<pc, cur, restored, calls, turns, overlap, agents_cache, compiled, sideVars>>

Next ==
    \/ \E c \in ChatIds, m \in Messages : SendToAgent(c, m)
    \/ \E c \in ChatIds, m \in Messages : CheckpointerUnavailable(c, m)
    \/ \E c \in ChatIds, m \in Messages : CreateMainGraphRaises(c, m)
    \/ DetectStageStep
    \/ HandleAdminStep
    \/ HandleDemoStep
    \/ HandleDemoSetupStep
    \/ Return
    \/ \E c \in ChatIds : ResetContext(c)

Spec == Init /\ [][Next]_vars

\* ainvoke runs the node it has scheduled: a turn in flight is not left
\* standing before a node
SpecLive ==
    /\ Spec
    /\ WF_vars(DetectStageStep)
    /\ WF_vars(HandleAdminStep)
    /\ WF_vars(HandleDemoStep)
    /\ WF_vars(HandleDemoSetupStep)

\* a second web session: its identifier is no number either, so
\* send_to_agent_langgraph and reset_context open thread "0" for it as well
WebChatIds == ChatIds \cup {"u2"}

NextWeb ==
    \/ \E c \in WebChatIds, m \in Messages : SendToAgent(c, m)
    \/ \E c \in WebChatIds, m \in Messages : CheckpointerUnavailable(c, m)
    \/ \E c \in WebChatIds, m \in Messages : CreateMainGraphRaises(c, m)
    \/ DetectStageStep
    \/ HandleAdminStep
    \/ HandleDemoStep
    \/ HandleDemoSetupStep
    \/ Return
    \/ \E c \in WebChatIds : ResetContext(c)

\* the service used by the chat and by two web sessions
SpecWeb == Init /\ [][NextWeb]_vars

\* a stage value that is none of the graph's: _route_after_detect tests for it
ForeignStage == "booking"

ForeignCheckpoint == Checkpoint([EmptyState EXCEPT !.stage = ForeignStage, !.chat_id = "u1"])

\* the start of the service on a store whose web-session thread holds a
\* checkpoint of an earlier deployment, with a stage of the graph or a foreign one
InitForeign ==
    /\ \E c \in {LegacyCheckpoint, ForeignCheckpoint} :
          store = [t \in Threads |-> IF t = "0" THEN c ELSE NoCheckpoint]
    /\ pc = "idle"
    /\ cur = EmptyState
    /\ restored = NoCheckpoint
    /\ calls = <<>>
    /\ turns = 0
    /\ InitSide

SpecForeign == InitForeign /\ [][Next]_vars

\* a whole turn on a snapshot of the thread, its agents returning ao, so and
\* do: the state of its last checkpoint
RunTurn(snapshot, chat_id, user_text, ao, so, do) ==
    LET s0 == InputState(snapshot, chat_id, user_text)
        s1 == [s0 EXCEPT !.stage = DetectStage(s0)]
        n == TurnNo(s0)
        route == RouteAfterDetect(s1)
        ha == HandleAdmin(s1, ao, n)
        s2 == ApplyNode(s1, ha.out)
        hd == IF route = "admin" THEN HandleDemo(s2, so, do, n) ELSE HandleDemo(s1, so, do, n)
        hs == HandleDemoSetup(s1, so, n)
    IN  CASE route = "admin" ->
                IF ha.raised THEN s1
                ELSE IF RouteAfterAdmin(s2) # "demo" \/ hd.raised THEN s2
                ELSE ApplyNode(s2, hd.out)
          [] route = "demo" -> IF hd.raised THEN s1 ELSE ApplyNode(s1, hd.out)
          [] OTHER -> IF hs.raised THEN s1 ELSE ApplyNode(s1, hs.out)

\* the message and the agent outcomes of the overlapping turn: the admin agent
\* invokes the switch tool, the demo_setup agent returns a full configuration,
\* the demo agent answers
OverlapMessage == <<"s", "t", "o", "p", "x">>

OverlapAdmin == Outcome("plain", SwitchTool, "no")

OverlapSetup == SetupOutcome(<<"{">> \o FullA \o <<"}">>, "no")

OverlapDemo == Outcome("plain", <<>>, "no")

\* a second request for the chat of the turn in flight is served while that
\* turn is between two nodes (send_to_agent_langgraph takes no lock and the
\* caller did not serialize): it restores what the thread holds now, runs and
\* stores its state
OverlappingTurn ==
    /\ pc \in {"detect_stage", "handle_admin", "handle_demo", "handle_demo_setup"}
    /\ ~overlap.exists
    /\ turns < MaxTurns
    /\ turns' = turns + 1
    /\ LET final == RunTurn(store[ThreadId(cur.chat_id)], cur.chat_id, OverlapMessage,
                            OverlapAdmin, OverlapSetup, OverlapDemo)
       IN  /\ Save(final)
           /\ overlap' = Checkpoint(final)
    /\ UNCHANGED <<pc, cur, restored, calls, agents_cache, compiled, sideVars>>

NextRace ==
    \/ Next
    \/ OverlappingTurn

\* the service when the caller lets two requests of a chat overlap
SpecRace == Init /\ [][NextRace]_vars

---------------------------------------------------------------------------
(* The calls of SessionConfigService *)

\* time passes in the database
Tick ==
    /\ now < MaxClock
    /\ now' = now + 1
    /\ UNCHANGED <<store, pc, cur, restored, calls, turns, overlap, agents_cache, compiled,
                   session_configs, svc, dialog_states, sample_configs, sample, shared>>

\* a call of process_setup_response
ProcessSetupResponseCall(thread_id, user_id, response_text, db_ok) ==
    LET r == ProcessSetupResponse(session_configs, thread_id, user_id, response_text, db_ok, now)
    IN  /\ session_configs' = r.table
        /\ svc' = [op |-> "process", thread_id |-> thread_id, text |-> response_text,
                   db_ok |-> db_ok, result |-> r.result, ok |-> Truthy(r.result),
                   attempts |-> r.attempts,
                   existed |-> \E row \in session_configs : row.id = thread_id]
        /\ UNCHANGED <<store, pc, cur, restored, calls, turns, overlap, agents_cache, compiled,
                       now, dialog_states, sample_configs, sample, shared>>

\* a call of save_demo_config
SaveDemoConfigCall(thread_id, user_id, config_data, db_ok) ==
    LET r == SaveDemoConfig(session_configs, thread_id, user_id, config_data, db_ok, now)
    IN  /\ session_configs' = r.table
        /\ svc' = [op |-> "save", thread_id |-> thread_id, text |-> <<>>,
                   db_ok |-> db_ok, result |-> DictValue(config_data), ok |-> r.ok,
                   attempts |-> 1,
                   existed |-> \E row \in session_configs : row.id = thread_id]
        /\ UNCHANGED <<store, pc, cur, restored, calls, turns, overlap, agents_cache, compiled,
                       now, dialog_states, sample_configs, sample, shared>>

\* a call of load_demo_config
LoadDemoConfigCall(thread_id, db_ok) ==
    LET r == LoadDemoConfig(session_configs, thread_id, db_ok)
    IN  /\ svc' = [op |-> "load", thread_id |-> thread_id, text |-> <<>>,
                   db_ok |-> db_ok,
                   result |-> IF r = NoRecord THEN NoneValue
                              ELSE DictValue([k \in RequiredFields |-> r[k]]),
                   ok |-> r # NoRecord,
                   attempts |-> 0,
                   existed |-> \E row \in session_configs : row.id = thread_id]
        /\ UNCHANGED <<store, pc, cur, restored, calls, turns, overlap, agents_cache, compiled,
                       session_configs, now, dialog_states, sample_configs, sample, shared>>

NextConfig ==
    \/ Tick
    \/ \E t \in ConfigIds, u \in UserIds, x \in ServiceTexts, ok \in BOOLEAN :
          ProcessSetupResponseCall(t, u, x, ok)
    \/ \E t \in ConfigIds, u \in UserIds, d \in ServiceDatas, ok \in BOOLEAN :
          SaveDemoConfigCall(t, u, d, ok)
    \/ \E t \in ConfigIds, ok \in BOOLEAN : LoadDemoConfigCall(t, ok)

\* SessionConfigService used on its own
SpecConfig == Init /\ [][NextConfig]_vars

---------------------------------------------------------------------------
(* The turns of the sample revision *)

\* what the sample revision does not touch
graphVars == <<store, pc, cur, restored, calls, turns, overlap, agents_cache, compiled,
               session_configs, now, svc, shared>>

\* send_to_agent_langgraph of the sample revision: the graph starts on a new
\* state with stage None; stop: the message is the stop command
SampleSend(chat_id, stop) ==
    /\ sample.pc = "idle"
    /\ sample' = [SampleIdle EXCEPT !.pc = "detect_stage", !.chat_id = chat_id, !.stop = stop]
    /\ UNCHANGED <<graphVars, dialog_states, sample_configs>>

\* node detect_stage: the stop command writes stage admin, any other message
\* reads the stage (None, or a failing query, gives admin)
SampleDetectStage ==
    /\ sample.pc = "detect_stage"
    /\ \E ydb_ok \in BOOLEAN :
          LET read == IF ydb_ok THEN dialog_states[sample.chat_id] ELSE "None"
              stage == IF sample.stop \/ read \notin ValidStages THEN "admin" ELSE read
          IN  /\ dialog_states' = IF sample.stop
                                  THEN SetStage(dialog_states, sample.chat_id, "admin", ydb_ok)
                                  ELSE dialog_states
              /\ sample' = [sample EXCEPT !.stage = stage, !.pc = NodeOf(stage)]
    /\ UNCHANGED <<graphVars, sample_configs>>

\* node handle_admin: the admin agent runs (when it invokes SwitchToDemoTool,
\* process writes stage demo), then the handler writes stage admin; the route
\* after it leads to handle_demo when the tool was used
SampleHandleAdmin ==
    /\ sample.pc = "handle_admin"
    /\ \E raised, switched, tool_ok, stage_ok \in BOOLEAN :
          IF raised
          THEN /\ sample' = [sample EXCEPT !.pc = "failed"]
               /\ UNCHANGED dialog_states
          ELSE LET by_tool == IF switched
                              THEN SetStage(dialog_states, sample.chat_id, "demo", tool_ok)
                              ELSE dialog_states
               IN  /\ dialog_states' = SetStage(by_tool, sample.chat_id, "admin", stage_ok)
                   /\ sample' = [sample EXCEPT !.switched = switched,
                                               !.pc = IF switched THEN "handle_demo" ELSE "end"]
    /\ UNCHANGED <<graphVars, sample_configs>>

\* node handle_demo: the stored configuration, or the one made from the
\* demo_setup agent's reply; without one the cached demo agent answers and the
\* handler returns, with one the configured agent answers and the handler
\* writes stage demo
SampleHandleDemo ==
    /\ sample.pc = "handle_demo"
    /\ \E raised, load_ok, save_ok, stage_ok \in BOOLEAN, text \in SampleSetupReplies :
          LET config == IF load_ok THEN sample_configs[sample.chat_id] ELSE NoneValue
              p == SampleProcessSetupResponse(sample_configs, sample.chat_id, text, save_ok)
              again == IF load_ok THEN p.configs[sample.chat_id] ELSE NoneValue
          IN  IF raised
              THEN /\ sample' = [sample EXCEPT !.pc = "failed"]
                   /\ UNCHANGED <<dialog_states, sample_configs>>
              ELSE IF ~Truthy(config) /\ ~Truthy(p.result) /\ ~Truthy(again)
              THEN /\ sample' = [sample EXCEPT !.pc = "end", !.path = "fallback"]
                   /\ sample_configs' = p.configs
                   /\ UNCHANGED dialog_states
              ELSE /\ sample' = [sample EXCEPT !.pc = "end", !.path = "configured"]
                   /\ sample_configs' = IF Truthy(config) THEN sample_configs ELSE p.configs
                   /\ dialog_states' = SetStage(dialog_states, sample.chat_id, "demo", stage_ok)
    /\ UNCHANGED graphVars

\* the reply is handed to the caller
SampleReturn ==
    /\ sample.pc \in {"end", "failed"}
    /\ sample' = SampleIdle
    /\ UNCHANGED <<graphVars, dialog_states, sample_configs>>

NextSample ==
    \/ \E c \in SampleChats, stop \in BOOLEAN : SampleSend(c, stop)
    \/ SampleDetectStage
    \/ SampleHandleAdmin
    \/ SampleHandleDemo
    \/ SampleReturn

SpecSample == Init /\ [][NextSample]_vars

---------------------------------------------------------------------------
(* Turns of two sessions on the same LangGraphService *)

sharedOnly ==
    <<store, pc, cur, restored, calls, turns, overlap, agents_cache, compiled,
      session_configs, now, svc, dialog_states, sample_configs, sample>>

\* a handler of the session's turn calls agent.run on the cached instance; the
\* nodes are plain functions, which ainvoke runs on worker threads
SharedRunStarts(session, agent, call_manager) ==
    /\ shared.run[session].pc = "idle"
    /\ shared' = [shared EXCEPT !.run[session] =
                     [NoRun EXCEPT !.pc = "running", !.agent = agent,
                                   !.call_manager = call_manager]]
    /\ UNCHANGED sharedOnly

\* agent.run returns; a run in which CallManager was invoked has left its
\* result in the attribute _call_manager_result of the instance
SharedRunReturns(session) ==
    LET r == shared.run[session]
    IN  /\ r.pc = "running"
        /\ shared' = [shared EXCEPT
                         !.attr[r.agent] = IF r.call_manager THEN PayloadOf(session) ELSE @,
                         !.run[session].pc = "returned"]
        /\ UNCHANGED sharedOnly

\* _process_agent_result goes on after run returned
SharedProcessResult(session) ==
    LET r == shared.run[session]
        e == EscalationResult(shared.attr, session, r.agent, r.call_manager)
    IN  /\ r.pc = "returned"
        /\ shared' = [shared EXCEPT !.run[session] =
                         [r EXCEPT !.pc = "end", !.answer = e.answer,
                                   !.manager_alert = e.manager_alert]]
        /\ UNCHANGED sharedOnly

\* the turn's answer and alert are handed to the caller
SharedReturn(session) ==
    /\ shared.run[session].pc = "end"
    /\ shared' = [shared EXCEPT !.run[session] = NoRun]
    /\ UNCHANGED sharedOnly

NextShared ==
    \/ \E s \in SharedSessions, a \in SharedAgents, cm \in BOOLEAN : SharedRunStarts(s, a, cm)
    \/ \E s \in SharedSessions : SharedRunReturns(s)
    \/ \E s \in SharedSessions : SharedProcessResult(s)
    \/ \E s \in SharedSessions : SharedReturn(s)

\* the service when turns of different sessions run at the same time
SpecShared == Init /\ [][NextShared]_vars

---------------------------------------------------------------------------
(* Vocabulary of the properties *)

\* the texts of Messages that are the stop command, written out
StopTexts == { <<"s", "t", "o", "p">>, <<" ", "S", "t", "O", "P", "NL">> }

InTurn == pc # "idle"

\* the turn went through its last node and final_state is about to be returned
TurnDone == pc = "end"

\* detect_stage has run and no handler has run yet
AfterDetect == pc \in {"handle_admin", "handle_demo", "handle_demo_setup"} /\ calls = <<>>

RestoredStage == restored.values.stage

Persisted == store[ThreadId(cur.chat_id)].values

LastCall == calls[Len(calls)]

DemoAgents == {"DemoAgent", "DemoAgentWithConfig"}

\* the user-visible text of one agent call: the user message of its escalation
\* when it escalated with one, its reply otherwise
AnswerOf(r) == IF r.call_manager /\ r.has_cmr THEN r.cmr_user_message ELSE r.reply

\* the turn restored stage demo and its message is the stop command
StopTurn == InTurn /\ restored.exists /\ RestoredStage = "demo" /\ cur.message \in StopTexts

\* the admin agent was called first in this turn and invoked SwitchToDemoTool
SwitchInvoked ==
    /\ calls # <<>>
    /\ calls[1].agent = "AdminAgent"
    /\ ~calls[1].r.raised
    /\ \E i \in DOMAIN calls[1].r.tool_names : calls[1].r.tool_names[i] = "SwitchToDemoTool"

---------------------------------------------------------------------------
(* C1 *)

\* C1: a turn whose graph runs and finds no checkpoint for its thread resolves the stage to
\* admin: after detect_stage the stage is admin, the admin and demo histories
\* are empty, the shared history holds only the new message and there is no
\* demo configuration; the first agent called is the admin agent, with an
\* empty history and no configuration.
C1_FirstTurnIsAdmin ==
    (InTurn /\ pc \notin {"detect_stage", "unavailable", "no_graph"} /\ ~restored.exists) =>
        /\ calls = <<>> =>
              /\ pc = "handle_admin"
              /\ cur.stage = "admin"
              /\ cur.admin_messages = <<>>
              /\ cur.demo_messages = <<>>
              /\ Len(cur.messages) = 1
              /\ cur.demo_config = NoneValue
        /\ calls # <<>> =>
              /\ calls[1].agent = "AdminAgent"
              /\ calls[1].history = <<>>
              /\ calls[1].config = NoneValue

C1_Witness ==
    /\ TurnDone
    /\ ~restored.exists
    /\ Len(calls) = 1
    /\ calls[1].agent = "AdminAgent"

---------------------------------------------------------------------------
(* C2 *)

---------------------------------------------------------------------------
(* C3 *)

---------------------------------------------------------------------------
(* C4 *)

\* C4: detect_stage replaces the restored stage by admin exactly when the
\* restored stage is demo and the message is the stop command; with stage
\* admin or demo_setup restored, the stop command like any other message
\* leaves the stage as it was and goes to that stage's handler.
C4_OverrideOnlyInDemo ==
    AfterDetect =>
        /\ (RestoredStage = "demo" /\ cur.message \in StopTexts) =>
              (cur.stage = "admin" /\ pc = "handle_admin")
        /\ (RestoredStage = "demo" /\ cur.message \notin StopTexts) =>
              (cur.stage = "demo" /\ pc = "handle_demo")
        /\ RestoredStage = "admin" => (cur.stage = "admin" /\ pc = "handle_admin")
        /\ RestoredStage = "demo_setup" =>
              (cur.stage = "demo_setup" /\ pc = "handle_demo_setup")

C4_Witness ==
    /\ AfterDetect
    /\ RestoredStage = "demo_setup"
    /\ cur.message \in StopTexts
    /\ pc = "handle_demo_setup"

---------------------------------------------------------------------------
(* C5 *)

\* C5: once the admin agent, called first in a turn, has invoked
\* SwitchToDemoTool, the turn goes on into the demo handler; when the turn is
\* done a demo agent was called last, the answer is the text of that call
\* (with or without the marker), and the state returned and persisted has
\* stage demo, on the configured path and on both fallback paths.
C5_SwitchRunsDemo ==
    SwitchInvoked =>
        /\ pc \in {"handle_demo", "end", "failed"}
        /\ TurnDone =>
              /\ Len(calls) >= 2
              /\ LastCall.agent \in DemoAgents
              /\ cur.agent_name = "DemoAgent"
              /\ cur.answer \in {AnswerOf(LastCall.r), Prefix \o AnswerOf(LastCall.r)}
              /\ cur.stage = "demo"
              /\ Persisted.stage = "demo"

C5_Witness ==
    /\ SwitchInvoked
    /\ TurnDone
    /\ Len(calls) = 3
    /\ calls[2].r.reply = <<"x">>
    /\ LastCall.agent = "DemoAgent"
    /\ Persisted.stage = "demo"

---------------------------------------------------------------------------
(* C6 *)

\* C6 as claimed: a finished mode-switch turn made exactly two agent calls,
\* the admin agent and then a demo agent, and the admin agent's reply is not
\* the returned answer.
C6_Original ==
    (SwitchInvoked /\ TurnDone) =>
        /\ Len(calls) = 2
        /\ calls[2].agent \in DemoAgents
        /\ calls[1].r.reply # <<>> => cur.answer # calls[1].r.reply

\* C6, amended: a finished mode-switch turn made two agent calls when a demo
\* configuration was restored (admin agent, demo agent) and three when none
\* was (admin agent, demo_setup agent, demo agent); the returned answer is the
\* text of the demo agent's call, never the admin agent's reply.
C6_SwitchTurnCalls ==
    (SwitchInvoked /\ TurnDone) =>
        /\ IF Truthy(restored.values.demo_config)
           THEN Len(calls) = 2
           ELSE Len(calls) = 3 /\ calls[2].agent = "DemoSetupAgent"
        /\ LastCall.agent \in DemoAgents
        /\ cur.answer \in {AnswerOf(LastCall.r), Prefix \o AnswerOf(LastCall.r)}
        /\ calls[1].r.reply # <<>> => cur.answer # calls[1].r.reply

C6_Witness ==
    /\ SwitchInvoked
    /\ TurnDone
    /\ Len(calls) = 3
    /\ calls[1].r.reply = <<"a">>
    /\ LastCall.agent = "DemoAgentWithConfig"

---------------------------------------------------------------------------
(* C7 *)

\* within a turn that restored a configuration: the state carries it
\* unchanged, it stays persisted, the demo handler calls only an agent built
\* from it, and the demo_setup agent is not called by the demo handler
C7_InTurn ==
    (InTurn /\ Truthy(restored.values.demo_config)) =>
        /\ cur.demo_config = restored.values.demo_config
        /\ Persisted.demo_config = restored.values.demo_config
        /\ \A i \in DOMAIN calls :
              /\ calls[i].agent # "DemoAgent"
              /\ calls[i].agent = "DemoSetupAgent" => cur.stage = "demo_setup"
              /\ calls[i].agent = "DemoAgentWithConfig" =>
                    calls[i].config = restored.values.demo_config

\* no step replaces or drops the configuration stored for a thread, except
\* the deletion of the thread's checkpoints by a reset
C7_Step ==
    \A t \in Threads :
        (Truthy(store[t].values.demo_config) /\ store'[t].exists) =>
            store'[t].values.demo_config = store[t].values.demo_config

\* C7: once a validated demo configuration is stored for a session, every
\* later turn of the session, in any stage, until a reset, restores and keeps
\* exactly that value; the demo handler builds its agent from it and does not
\* call the demo_setup agent again.
C7_ConfigKept == [] C7_InTurn /\ [][C7_Step]_vars

C7_Witness ==
    /\ TurnDone
    /\ Truthy(restored.values.demo_config)
    /\ restored.values.demo_config.d["niche"] = "B"
    /\ restored.values.stage = "demo"
    /\ LastCall.agent = "DemoAgentWithConfig"

---------------------------------------------------------------------------
(* C8 *)

MissingWelcome == <<"{", "niche:A", "company_name:A", "persona_instruction:A", "}">>

\* the texts of SetupReplies that are no JSON, or a JSON object lacking a
\* required field, written out
MalformedReplies == { <<" ", "NL">>, <<"x">>, <<"{", "}">>, <<"}", "x", "{">>, MissingWelcome }

\* C8: when the demo_setup agent called by the demo handler returns a text
\* that is no JSON or an object lacking a required field, the handler goes on
\* to call the demo agent built without configuration; the turn fails only if
\* that call raises, and otherwise no configuration is in the returned or
\* persisted state and the answer is the text of that call.
C8_MalformedFallsBack ==
    \A i \in DOMAIN calls :
        ( /\ pc \in {"end", "failed"}
          /\ cur.stage # "demo_setup"
          /\ calls[i].agent = "DemoSetupAgent"
          /\ ~calls[i].r.raised
          /\ calls[i].r.reply \in MalformedReplies ) =>
            /\ Len(calls) = i + 1
            /\ calls[i + 1].agent = "DemoAgent"
            /\ calls[i + 1].config = NoneValue
            /\ pc = "failed" => calls[i + 1].r.raised
            /\ TurnDone =>
                  /\ cur.demo_config = NoneValue
                  /\ Persisted.demo_config = NoneValue
                  /\ cur.answer = AnswerOf(calls[i + 1].r)

C8_Witness ==
    /\ TurnDone
    /\ Len(calls) = 2
    /\ calls[1].agent = "DemoSetupAgent"
    /\ calls[1].r.reply = MissingWelcome
    /\ calls[2].agent = "DemoAgent"
    /\ cur.answer = <<"d">>

---------------------------------------------------------------------------
(* C9 *)

\* C9 as claimed: a non-empty reply of a demo agent, configured or not, that
\* is no escalation is returned with the marker in front exactly once: put in
\* front when the reply does not start with it, left alone when it does.
C9_Claim ==
    ( /\ TurnDone
      /\ calls # <<>>
      /\ LastCall.agent \in DemoAgents
      /\ ~LastCall.r.call_manager
      /\ LastCall.r.reply # <<>> ) =>
        cur.answer = IF StartsWith(LastCall.r.reply, Prefix)
                     THEN LastCall.r.reply
                     ELSE Prefix \o LastCall.r.reply

---------------------------------------------------------------------------
(* C10 *)

\* C10 as claimed: when the agent a handler dispatched escalated, the
\* returned answer is the escalation's user message, without marker, and the
\* returned alert is the escalation's alert.
C10_Claim ==
    ( /\ TurnDone
      /\ calls # <<>>
      /\ LastCall.r.call_manager
      /\ LastCall.r.has_cmr ) =>
        /\ cur.answer = LastCall.r.cmr_user_message
        /\ cur.manager_alert = LastCall.r.cmr_alert

---------------------------------------------------------------------------
(* C11 *)

\* C11 as claimed: when the demo_setup agent escalated in a turn, whether it
\* was called by the demo_setup handler or inside the demo handler, the
\* finished turn returns the escalation's user message as its answer and the
\* escalation's alert.
C11_Claim ==
    TurnDone =>
        \A i \in DOMAIN calls :
            ( /\ calls[i].agent = "DemoSetupAgent"
              /\ calls[i].r.call_manager
              /\ calls[i].r.has_cmr ) =>
                /\ cur.answer = calls[i].r.cmr_user_message
                /\ cur.manager_alert = calls[i].r.cmr_alert

---------------------------------------------------------------------------
(* C12 *)

\* a step between two turns changes the store only by leaving a thread with
\* no checkpoint at all, which is how a never-seen thread is stored; and a
\* turn starts from what the store holds for its thread
C12_Step ==
    /\ (pc = "idle" /\ pc' = "idle") =>
          \A t \in Threads : store'[t] \in {store[t], NoCheckpoint}
    /\ (pc = "idle" /\ pc' = "detect_stage") =>
          restored' = store[ThreadId(cur'.chat_id)]

\* a turn that finds no checkpoint starts from the state of a never-seen
\* identifier: only the new message in the shared history, empty admin and
\* demo histories, no configuration, and detect_stage resolves it to admin
C12_FreshTurn ==
    (pc = "detect_stage" /\ ~restored.exists) =>
        /\ cur = InputState(NoCheckpoint, cur.chat_id, cur.message)
        /\ cur.messages = <<Msg("user", "input", 1)>>
        /\ cur.admin_messages = <<>>
        /\ cur.demo_messages = <<>>
        /\ cur.demo_config = NoneValue
        /\ DetectStage(cur) = "admin"

---------------------------------------------------------------------------
(* C13 *)

\* C13 as claimed: what a turn restores was stored by turns of the same
\* session identifier, never by a turn of another identifier.
C13_Claim ==
    (InTurn /\ restored.exists) => restored.values.chat_id = cur.chat_id

---------------------------------------------------------------------------
(* C14 *)

\* an agent call of the turn raised, or the demo handler could not use what
\* it parsed from the demo_setup agent's reply (a JSON number)
TurnRaised ==
    /\ calls # <<>>
    /\ \/ LastCall.r.raised
       \/ /\ LastCall.agent = "DemoSetupAgent"
          /\ cur.stage # "demo_setup"
          /\ ParseJsonFromResponse(LastCall.r.reply).kind = "num"
          /\ Truthy(ParseJsonFromResponse(LastCall.r.reply))

---------------------------------------------------------------------------
(* C15 *)

\* C15 as claimed: when the graph run of a turn raised, the thread's stored
\* state is exactly what the turn restored.
C15_Claim == pc = "failed" => store[ThreadId(cur.chat_id)] = restored

---------------------------------------------------------------------------
(* C16 *)

\* C16 as claimed: a finished turn that restored a stage that is none of
\* admin, demo, demo_setup called the admin agent first, and the state it
\* returns and persists has stage admin or, after a mode switch, demo.
C16_Claim ==
    (TurnDone /\ restored.exists /\ RestoredStage \notin ValidStages) =>
        /\ calls[1].agent = "AdminAgent"
        /\ cur.stage \in {"admin", "demo"}
        /\ Persisted.stage \in {"admin", "demo"}

---------------------------------------------------------------------------
(* C17 *)

\* the shared history (channel messages) as the handlers of the turn in
\* flight find it: what was restored, and the new user message after it
SharedAtCall == InputState(restored, cur.chat_id, cur.message).messages

\* C17 as claimed: every call of the admin agent and of the demo_setup agent
\* in a turn is given the shared history (with or without the new user
\* message, which the agent is handed separately), and every call of a demo
\* agent is given the demo history.
C17_Claim ==
    InTurn =>
        \A i \in DOMAIN calls :
            /\ calls[i].agent \in {"AdminAgent", "DemoSetupAgent"} =>
                  calls[i].history \in {restored.values.messages, SharedAtCall}
            /\ calls[i].agent \in DemoAgents =>
                  calls[i].history = restored.values.demo_messages

---------------------------------------------------------------------------
(* C18 *)

\* turn n of the thread of the turn in flight was exchanged in the demo stage:
\* the demo agent's messages of turn n are recorded, the admin agent's are not
DemoOnlyTurn(n) ==
    /\ Msg("user", "DemoAgent", n) \in Range(cur.demo_messages)
    /\ Msg("user", "AdminAgent", n) \notin Range(cur.admin_messages)

\* C18 as claimed: no history given to the admin agent or to the demo_setup
\* agent holds a message of the demo agent or the user's message of a turn
\* exchanged in the demo stage, and the demo history holds nothing but the
\* messages of demo agent calls.
C18_Claim ==
    TurnDone =>
        /\ \A i \in DOMAIN calls :
              calls[i].agent \in {"AdminAgent", "DemoSetupAgent"} =>
                  \A e \in Range(calls[i].history) :
                      /\ e.by # "DemoAgent"
                      /\ ~(e.by = "input" /\ DemoOnlyTurn(e.turn))
        /\ \A e \in Range(cur.demo_messages) : e.by = "DemoAgent"

---------------------------------------------------------------------------
(* C19 *)

IsPrefix(a, b) == Len(a) <= Len(b) /\ SubSeq(b, 1, Len(a)) = a

\* a step that leaves a checkpoint on a thread that had one keeps the stored
\* shared and demo histories as prefixes of the new ones
C19_Step ==
    \A t \in Threads :
        (store[t].exists /\ store'[t].exists) =>
            /\ IsPrefix(store[t].values.messages, store'[t].values.messages)
            /\ IsPrefix(store[t].values.demo_messages, store'[t].values.demo_messages)

\* the state of the turn in flight has the restored histories as prefixes
C19_InTurn ==
    InTurn =>
        /\ IsPrefix(restored.values.messages, cur.messages)
        /\ IsPrefix(restored.values.demo_messages, cur.demo_messages)

---------------------------------------------------------------------------
(* C20 *)

\* the finished turn in flight was handled by the admin handler alone, or by
\* the demo_setup handler
AdminOrSetupOnly ==
    /\ Len(calls) = 1
    /\ calls[1].agent \in {"AdminAgent", "DemoSetupAgent"}

\* the finished turn in flight was handled by the demo handler alone
DemoOnly ==
    /\ calls # <<>>
    /\ calls[1].agent # "AdminAgent"
    /\ LastCall.agent \in DemoAgents

\* C20: a finished turn handled only by the admin handler or by the
\* demo_setup handler returns and persists the demo configuration and the
\* demo history it restored; a finished turn handled only by the demo handler
\* returns and persists the admin history it restored.
C20_HandlersKeepOthersFields ==
    TurnDone =>
        /\ AdminOrSetupOnly =>
              /\ cur.demo_config = restored.values.demo_config
              /\ cur.demo_messages = restored.values.demo_messages
              /\ Persisted.demo_config = restored.values.demo_config
              /\ Persisted.demo_messages = restored.values.demo_messages
        /\ DemoOnly =>
              /\ cur.admin_messages = restored.values.admin_messages
              /\ Persisted.admin_messages = restored.values.admin_messages

C20_Witness ==
    /\ TurnDone
    /\ AdminOrSetupOnly
    /\ calls[1].agent = "AdminAgent"
    /\ Truthy(restored.values.demo_config)
    /\ restored.values.demo_messages # <<>>
    /\ cur.demo_config = restored.values.demo_config

---------------------------------------------------------------------------
(* C21 *)

\* the alert an agent call of this turn handed to _process_agent_result
AlertOf(r) == IF r.has_cmr THEN r.cmr_alert ELSE r.manager_alert

\* C21: the state returned by a turn carries an escalation alert only if an
\* agent called by a handler of that same turn signalled escalation, and the
\* alert is that call's: the input of a turn clears the alert the thread's
\* checkpoint holds, so a turn that starts on a thread whose last turn
\* escalated enters detect_stage without an alert and returns one only when
\* one of its own calls escalated.
C21_AlertFromThisTurn ==
    /\ pc = "detect_stage" => cur.manager_alert = "None"
    /\ (TurnDone /\ cur.manager_alert # "None") =>
          /\ \E i \in DOMAIN calls :
                /\ calls[i].r.call_manager
                /\ calls[i].agent # "DemoSetupAgent" \/ cur.stage = "demo_setup"
                /\ cur.manager_alert = AlertOf(calls[i].r)
          /\ SendToAgentResult.manager_alert = cur.manager_alert
    /\ (TurnDone /\ \A i \in DOMAIN calls : ~calls[i].r.call_manager) =>
          SendToAgentResult.manager_alert = "None"

\* a turn on a thread whose checkpoint holds the alert of an earlier turn ends
\* without escalation
C21_Witness ==
    /\ TurnDone
    /\ restored.exists
    /\ restored.values.manager_alert # "None"
    /\ \A i \in DOMAIN calls : ~calls[i].r.call_manager
    /\ cur.manager_alert = "None"

---------------------------------------------------------------------------
(* C22 *)

\* the turn is done and its demo handler ran the demo_setup agent before a
\* demo agent
SetupInDemo ==
    /\ TurnDone
    /\ Len(calls) >= 2
    /\ calls[Len(calls) - 1].agent = "DemoSetupAgent"

\* C22: in a turn whose demo handler runs the demo_setup agent, the returned
\* answer is never the demo_setup agent's reply text: on the success path
\* (the reply parsed to a full configuration) and on both fallback paths (no
\* object parsed, a required field missing) the last call of the turn is a
\* demo agent's and the answer is that call's text (its reply or the user
\* message of its escalation), with the demo marker on the success path.
C22_SetupReplyNotReturned ==
    SetupInDemo =>
        /\ LastCall.agent \in DemoAgents
        /\ cur.agent_name = "DemoAgent"
        /\ cur.answer # calls[Len(calls) - 1].r.reply
        /\ cur.answer = IF LastCall.agent = "DemoAgentWithConfig"
                        THEN Decorate(AnswerOf(LastCall.r))
                        ELSE AnswerOf(LastCall.r)
        /\ SendToAgentResult.user_message = cur.answer

\* a demo turn whose demo_setup reply lacks a required field ends with the
\* reply of the cached demo agent
C22_Witness ==
    /\ SetupInDemo
    /\ calls[Len(calls) - 1].r.reply = MissingWelcome
    /\ LastCall.agent = "DemoAgent"
    /\ cur.answer = LastCall.r.reply
    /\ cur.answer # <<>>

---------------------------------------------------------------------------
(* C23 *)

\* C23: the answer returned for a turn is produced during that turn: the
\* input of the turn clears the answer the thread's checkpoint holds, the
\* answer of a finished turn is the text of the last agent call of this turn
\* (a call made for this turn's message), and a turn that did not finish
\* returns the apology, never a stored answer.
C23_AnswerFromThisTurn ==
    /\ pc = "detect_stage" => cur.answer = <<>>
    /\ TurnDone =>
          /\ calls # <<>>
          /\ LastCall.r.messages[1].turn = TurnNo(cur)
          /\ TurnNo(cur) = TurnNo(restored.values) + 1
          /\ cur.answer \in {AnswerOf(LastCall.r), Decorate(AnswerOf(LastCall.r))}
          /\ SendToAgentResult.user_message = cur.answer
    /\ pc \in {"failed", "unavailable", "no_graph"} => SendToAgentResult.user_message = Apology

\* a finished turn on a thread whose checkpoint holds another answer
C23_Witness ==
    /\ TurnDone
    /\ restored.exists
    /\ restored.values.answer # <<>>
    /\ restored.values.answer # cur.answer
    /\ SendToAgentResult.user_message = cur.answer

---------------------------------------------------------------------------
(* C29 *)

\* the admin handler of this turn has returned
AdminReturned ==
    /\ pc \in {"handle_demo", "end"}
    /\ calls # <<>>
    /\ calls[1].agent = "AdminAgent"

\* the note of this turn is the last entry of the admin history, once
NoteAppended ==
    /\ cur.admin_messages # <<>>
    /\ cur.admin_messages[Len(cur.admin_messages)] = StopNote(TurnNo(cur))
    /\ Cardinality({i \in DOMAIN cur.admin_messages :
                       cur.admin_messages[i] = StopNote(TurnNo(cur))}) = 1

\* C29: the admin handler appends the note that the demonstration was ended by
\* the stop command in exactly the turns that have just switched from demo to
\* admin through the stop override: such a turn has the note once, at the end
\* of the admin history, and any other turn handled by the admin handler (a
\* stop command received in stage admin among them) has no note of its own.
C29_Claim ==
    AdminReturned =>
        IF StopTurn
        THEN NoteAppended
        ELSE StopNote(TurnNo(cur)) \notin Range(cur.admin_messages)

\* the two ways the handler's test (stop command and a stored configuration)
\* differs from the turn having left demo: a stop turn that leaves a demo stage
\* entered without a configuration, and a stop command in stage admin on a
\* thread that holds a configuration
C29_StopFromUnconfiguredDemo ==
    /\ AdminReturned
    /\ StopTurn
    /\ ~Truthy(restored.values.demo_config)
    /\ StopNote(TurnNo(cur)) \notin Range(cur.admin_messages)

C29_StopInAdminWithConfig ==
    /\ AdminReturned
    /\ restored.exists
    /\ RestoredStage = "admin"
    /\ cur.message \in StopTexts
    /\ NoteAppended

---------------------------------------------------------------------------
(* C25 *)

\* some agent call of the turn did not return
SomeCallRaised == \E i \in DOMAIN calls : calls[i].r.raised

\* C25: every turn whose agent calls return reaches END after one sequential
\* pass: a turn that ends without reaching END had an agent call that raised.
C25_Claim == pc = "failed" => SomeCallRaised

\* the pass itself: from a node the turn moves only forward (detect_stage to
\* one handler, handle_admin to handle_demo or out, handle_demo and
\* handle_demo_setup out), so no node is entered twice
C25_Step ==
    pc' # pc =>
        CASE pc = "idle" -> pc' \in {"detect_stage", "unavailable", "no_graph"}
          [] pc = "detect_stage" -> pc' \in {"handle_admin", "handle_demo", "handle_demo_setup"}
          [] pc = "handle_admin" -> pc' \in {"handle_demo", "end", "failed"}
          [] pc \in {"handle_demo", "handle_demo_setup"} -> pc' \in {"end", "failed"}
          [] OTHER -> pc' = "idle"

\* under SpecLive every turn that entered the graph leaves it, at END or by an
\* exception, after at most three nodes
C25_PassEnds ==
    /\ [][C25_Step]_vars
    /\ (pc = "detect_stage") ~> (pc \in {"end", "failed"})
    /\ [](Len(calls) <= 3)

\* a turn in which the admin, the demo_setup and the demo agent were called and
\* returned, and which did not reach END
C25_AllReturnedNoEnd ==
    /\ pc = "failed"
    /\ ~SomeCallRaised
    /\ calls # <<>>

---------------------------------------------------------------------------
(* C30 *)

\* what a construction that raised ValueError at once leaves behind
RaisedFirst(cache) == [raised |-> TRUE, cache |-> cache, compiled |-> FALSE]

\* C30: create_main_graph and the construction of MainGraph raise ValueError
\* when the checkpointer is None, before any agent is created or cached and
\* before a graph is compiled: with an empty and with a filled agents cache
\* both leave the cache as it was and compile nothing, and a turn of the
\* service that is handed None ends without a compiled graph and, when no
\* earlier turn built the agents, with an empty cache.
C30_NoneCheckpointerRaisesFirst ==
    /\ \A cache \in {{}, AgentNames} :
          /\ CreateMainGraph(cache, "None") = RaisedFirst(cache)
          /\ MainGraphInit(cache, "None") = RaisedFirst(cache)
          /\ ~CreateMainGraph(cache, "checkpointer").raised
    /\ pc = "no_graph" =>
          /\ ~compiled
          /\ turns = 1 => agents_cache = {}
          /\ SendToAgentResult = ErrorResponse
    /\ pc \in {"detect_stage", "handle_admin", "handle_demo", "handle_demo_setup", "end"} =>
          /\ compiled
          /\ agents_cache = AgentNames

\* the first turn of the service is handed None
C30_Witness ==
    /\ pc = "no_graph"
    /\ turns = 1
    /\ agents_cache = {}
    /\ ~compiled

---------------------------------------------------------------------------
(* C24 *)

\* entries of the overlapping turn that the thread's checkpoint does not hold
LostEntries(field) ==
    {e \in Range(overlap.values[field]) : e \notin Range(Persisted[field])}

\* C24: the restore-handle-persist cycle is not atomic and nothing serializes
\* two turns of a chat: when a second turn of the chat stores its state while
\* a turn is between two nodes and that turn then finishes, the thread holds
\* exactly the state of the turn that finished last, which was computed from
\* what it had restored before: the message of the overlapping turn is missing
\* from the stored history (lost update), and the stage and the demo
\* configuration are those of the turn that finished last.
C24_LostUpdate ==
    (TurnDone /\ overlap.exists) =>
        /\ store[ThreadId(cur.chat_id)] = Checkpoint(cur)
        /\ Msg("user", "input", TurnNo(overlap.values)) \in LostEntries("messages")
        /\ Persisted.stage = cur.stage
        /\ Persisted.demo_config = cur.demo_config

\* the overlapping turn switched the chat to demo and stored a configuration;
\* the turn that finished last left stage admin and no configuration
C24_Witness ==
    /\ TurnDone
    /\ overlap.exists
    /\ overlap.values.stage = "demo"
    /\ Truthy(overlap.values.demo_config)
    /\ Persisted.stage = "admin"
    /\ ~Truthy(Persisted.demo_config)
    /\ LostEntries("messages") # {}
    /\ LostEntries("admin_messages") # {}
    /\ LostEntries("demo_messages") # {}

---------------------------------------------------------------------------
(* C26 *)

\* the response parses to an object that has the four required fields
FullObject(response_text) ==
    LET config_data == ServiceParseJson(response_text)
    IN  config_data.kind = "dict" /\ RequiredFields \subseteq DOMAIN config_data.d

\* a call of process_setup_response has just returned
C26_Step ==
    (svc'.op = "process" /\ <<svc, session_configs>>' # <<svc, session_configs>>) =>
        LET full == FullObject(svc'.text)
        IN  /\ svc'.ok <=> (full /\ svc'.db_ok)
            /\ svc'.ok =>
                  /\ svc'.result = ServiceParseJson(svc'.text)
                  /\ svc'.attempts = 1
                  /\ LoadDemoConfig(session_configs', svc'.thread_id, TRUE) # NoRecord
            /\ ~svc'.ok => svc'.result = NoneValue /\ session_configs' = session_configs
            /\ ~full => svc'.attempts = 0
            /\ (full /\ ~svc'.db_ok) => svc'.attempts = 1

\* C26: process_setup_response returns a configuration only when the text
\* parsed to an object with the four required fields and the single write
\* succeeded (the configuration is the parsed object, and the row is in the
\* table); on a parse failure or a missing field it returns None and has not
\* called save_demo_config; on a failed write it returns None after exactly
\* one call of save_demo_config; in both cases the table is unchanged.
C26_ProcessSetupResponse == [][C26_Step]_vars

\* the write of a full configuration failed
C26_Witness ==
    /\ svc.op = "process"
    /\ FullObject(svc.text)
    /\ ~svc.db_ok
    /\ svc.result = NoneValue
    /\ svc.attempts = 1

---------------------------------------------------------------------------
(* C27 *)

\* the records of the table as load_demo_config gives them
Records(table) == {Selected(r) : r \in table}

\* C27: save_demo_config is an idempotent upsert keyed by the session
\* identifier: the table holds at most one row per identifier; a successful
\* save, on any table the service can have produced, leaves for its identifier
\* exactly the saved record (a row that was there is replaced) and leaves the
\* rows of the other identifiers as they were; saving the same record again,
\* at the same or a later time, leaves the records as after the first save
\* (column updated_at, which load_demo_config does not select, is set anew).
C27_IdempotentUpsert ==
    /\ \A r1, r2 \in session_configs : r1.id = r2.id => r1 = r2
    /\ \A id \in ConfigIds, u \in UserIds, d \in ServiceDatas \cup {FullDict("A"), FullDict("B")} :
          LET once == SaveDemoConfig(session_configs, id, u, d, TRUE, now)
          IN  /\ once.ok
              /\ LoadDemoConfig(once.table, id, TRUE) = Selected(Row(id, u, d, now))
              /\ {r \in once.table : r.id # id} = {r \in session_configs : r.id # id}
              /\ Cardinality({r \in once.table : r.id = id}) = 1
              /\ \A t \in now..MaxClock :
                    LET twice == SaveDemoConfig(once.table, id, u, d, TRUE, t)
                    IN  /\ twice.ok
                        /\ Records(twice.table) = Records(once.table)
                        /\ Cardinality(twice.table) = Cardinality(once.table)

\* a save has replaced the row of its identifier while the other identifier
\* has a row too
C27_Witness ==
    /\ svc.op = "save"
    /\ svc.ok
    /\ svc.existed
    /\ Cardinality(session_configs) = 2
    /\ LoadDemoConfig(session_configs, svc.thread_id, TRUE).niche = Get(svc.result.d, "niche")

---------------------------------------------------------------------------
(* C28 *)

\* C28 as claimed: in the sample revision a turn in which the admin agent
\* invoked the switch tool ends with the stored stage demo on every path
\* through the demo handler, the fallback to the unconfigured demo agent
\* included.
C28_Claim ==
    (sample.pc = "end" /\ sample.switched) => dialog_states[sample.chat_id] = "demo"

\* a switch turn that took the fallback ends with stage admin stored
C28_FallbackEndsAdmin ==
    /\ sample.pc = "end"
    /\ sample.switched
    /\ sample.path = "fallback"
    /\ dialog_states[sample.chat_id] = "admin"


---------------------------------------------------------------------------
(* C31 *)

\* C31 as claimed: with turns of two sessions running at the same time on the
\* same cached agent, the answer and the alert of a turn whose run invoked
\* CallManager are those of that turn's own run, never the other session's.
C31_Claim ==
    \A s \in SharedSessions :
        (shared.run[s].pc = "end" /\ shared.run[s].call_manager) =>
            /\ shared.run[s].answer = PayloadOf(s).user_message
            /\ shared.run[s].manager_alert = PayloadOf(s).manager_alert

\* a turn of chat 7 ends with the escalation made in the run for chat 8
C31_OtherSessionsEscalation ==
    /\ shared.run["7"].pc = "end"
    /\ shared.run["7"].call_manager
    /\ shared.run["7"].answer = PayloadOf("8").user_message
    /\ shared.run["7"].manager_alert = PayloadOf("8").manager_alert

---------------------------------------------------------------------------
(* C32 *)

\* the stage the thread holds differs from the one the turn restored
StageChanged == Persisted.stage # RestoredStage

\* C32: in a turn whose graph ran on a restored checkpoint, the persisted
\* stage differs from the restored one only as admin -> demo in a turn whose
\* admin agent invoked SwitchToDemoTool, or as demo -> admin in a turn whose
\* trimmed, lower-cased message is the stop command; in every other turn, and
\* at every moment of it, the persisted stage is the restored one.  On a
\* thread without checkpoint the stage becomes admin, and demo only through
\* the switch tool.
C32_StageChangesOnlyBySignal ==
    /\ (InTurn /\ restored.exists /\ StageChanged) =>
          \/ /\ RestoredStage = "admin"
             /\ Persisted.stage = "demo"
             /\ SwitchInvoked
          \/ /\ RestoredStage = "demo"
             /\ Persisted.stage = "admin"
             /\ IsStop(cur.message)
    /\ (pc \in {"handle_admin", "handle_demo", "handle_demo_setup", "end", "failed"}
            /\ ~restored.exists) =>
          \/ Persisted.stage = "admin"
          \/ Persisted.stage = "demo" /\ SwitchInvoked

\* a finished stop turn took the thread from demo to admin
C32_Witness ==
    /\ TurnDone
    /\ restored.exists
    /\ RestoredStage = "demo"
    /\ Persisted.stage = "admin"
    /\ IsStop(cur.message)
    /\ ~SwitchInvoked

---------------------------------------------------------------------------
(* C33 *)

\* C33: nothing leads into stage demo_setup.  The thread of chat 7, which no
\* earlier deployment has written, never holds it; whenever a turn's thread
\* holds it, or the turn stands before the demo_setup handler, the turn
\* restored a checkpoint with that stage (so a thread emptied by
\* reset_context does not come back to it either).
C33_NoWayIntoDemoSetup ==
    /\ store["7"].values.stage # "demo_setup"
    /\ (pc \notin {"idle", "unavailable", "no_graph"} /\ Persisted.stage = "demo_setup") =>
          (restored.exists /\ RestoredStage = "demo_setup")
    /\ (pc = "handle_demo_setup" \/ cur.stage = "demo_setup") =>
          (restored.exists /\ RestoredStage = "demo_setup")

\* the second turn of chat 7 is done: the demo handler called the demo_setup
\* agent, no configuration came of it, and the stage is demo
C33_Witness ==
    /\ TurnDone
    /\ cur.chat_id = "7"
    /\ restored.exists
    /\ \E i \in DOMAIN calls : calls[i].agent = "DemoSetupAgent"
    /\ ~Truthy(Persisted.demo_config)
    /\ Persisted.stage = "demo"

---------------------------------------------------------------------------
(* C34 *)

\* the turn restored stage demo without a configuration and its message is
\* not the stop command: the demo handler handles it
UnconfiguredDemoTurn ==
    /\ InTurn
    /\ restored.exists
    /\ RestoredStage = "demo"
    /\ ~Truthy(restored.values.demo_config)
    /\ ~IsStop(cur.message)

\* C34: in a turn that restored no configuration every call of a demo agent
\* comes directly after a call of the demo_setup agent in the same turn.  A
\* turn that restored stage demo without configuration and is not a stop turn
\* calls the demo_setup agent first, on the shared history; when it ends on
\* the unconfigured demo agent the thread keeps stage demo and no
\* configuration (the next such turn derives again), when it ends on the
\* configured agent the configuration parsed from that reply is stored.
C34_DerivationEveryDemoTurn ==
    /\ (InTurn /\ ~Truthy(restored.values.demo_config)) =>
          \A i \in DOMAIN calls :
              calls[i].agent \in DemoAgents =>
                  (i > 1 /\ calls[i - 1].agent = "DemoSetupAgent")
    /\ (UnconfiguredDemoTurn /\ pc \in {"end", "failed"}) =>
          /\ calls # <<>>
          /\ calls[1].agent = "DemoSetupAgent"
          /\ calls[1].history = cur.messages
          /\ Persisted.stage = "demo"
          /\ (TurnDone /\ LastCall.agent = "DemoAgent") =>
                ~Truthy(Persisted.demo_config)
          /\ (TurnDone /\ LastCall.agent = "DemoAgentWithConfig") =>
                /\ Persisted.demo_config = ParseJsonFromResponse(calls[1].r.reply)
                /\ MissingFields(Persisted.demo_config) = {}
          /\ pc = "failed" => ~Truthy(Persisted.demo_config)

\* chat 7: the derivation failed in the turn that switched to demo, and the
\* next turn asked the demo_setup agent again, in vain again
C34_Witness ==
    /\ UnconfiguredDemoTurn
    /\ TurnDone
    /\ cur.chat_id = "7"
    /\ Len(calls) = 2
    /\ calls[1].agent = "DemoSetupAgent"
    /\ calls[2].agent = "DemoAgent"
    /\ ~Truthy(Persisted.demo_config)
    /\ Persisted.stage = "demo"

---------------------------------------------------------------------------
(* C35 *)

\* absent, or an object with all four keys
AbsentOrComplete(config) ==
    \/ config = NoneValue
    \/ config.kind = "dict" /\ RequiredFields \subseteq DOMAIN config.d

\* C35: the demo configuration held by any thread, and the one in the state
\* of the turn in flight, is absent or has all four keys niche, company_name,
\* persona_instruction and welcome_message.
C35_ConfigAbsentOrComplete ==
    /\ \A t \in Threads : AbsentOrComplete(store[t].values.demo_config)
    /\ AbsentOrComplete(cur.demo_config)

\* the demo_setup agent returned an object without welcome_message, the turn
\* went on to its end and nothing was stored
C35_Witness ==
    /\ TurnDone
    /\ \E i \in DOMAIN calls :
          /\ calls[i].agent = "DemoSetupAgent"
          /\ calls[i].r.reply = <<"{", "niche:A", "company_name:A", "persona_instruction:A", "}">>
    /\ Persisted.demo_config = NoneValue
    /\ Persisted.stage = "demo"

---------------------------------------------------------------------------
(* C36 *)

\* the checkpoint the turn restored is the end of a turn that succeeded: a
\* handler returned last, and it was not the admin handler of a turn that
\* went on into a demo handler which raised
PreviousTurnSucceeded ==
    /\ restored.exists
    /\ restored.values.agent_name # "None"
    /\ ~(/\ restored.values.agent_name = "AdminAgent"
         /\ "SwitchToDemoTool" \in Range(restored.values.used_tools))

\* C36 as claimed: of the turns a thread has seen since it was created or
\* reset, the first that succeeds reports is_first_message true and a later
\* one reports false.  Stated for the first two turns of a thread, where the
\* restored checkpoint tells whether the earlier turn succeeded, and for
\* threads that were not left in stage demo_setup by an earlier deployment.
C36_Claim ==
    (TurnDone /\ TurnNo(cur) <= 2 /\ cur.stage # "demo_setup") =>
        (SendToAgentResult.is_first_message <=> ~PreviousTurnSucceeded)

\* the first turn of chat 7 failed in the admin handler; the second turn is
\* the first to succeed and reports is_first_message false
C36_FirstSuccessAfterFailure ==
    /\ TurnDone
    /\ cur.chat_id = "7"
    /\ TurnNo(cur) = 2
    /\ restored.exists
    /\ restored.values.agent_name = "None"
    /\ ~SendToAgentResult.is_first_message

---------------------------------------------------------------------------
(* C37 *)

\* what a load of the identifier gives while the database answers: the four
\* fields of its row, None when it has no row
Stored(table, thread_id) ==
    LET r == LoadDemoConfig(table, thread_id, TRUE)
    IN  IF r = NoRecord THEN NoneValue ELSE DictValue([k \in RequiredFields |-> r[k]])

\* the four fields of a configuration handed to save_demo_config (a key it
\* lacks is written as NULL and read as None)
FieldsOf(config_data) == DictValue([k \in RequiredFields |-> Get(config_data, k)])

C37_Load ==
    svc.op = "load" =>
        svc.result = IF svc.db_ok THEN Stored(session_configs, svc.thread_id) ELSE NoneValue

\* a step of the service: a successful save leaves for its identifier the
\* four fields it was given; the fields stored for an identifier change in
\* no other step
C37_Step ==
    LET saved == /\ svc'.op \in {"save", "process"}
                 /\ svc'.ok
                 /\ <<svc, session_configs>>' # <<svc, session_configs>>
    IN  /\ saved => Stored(session_configs', svc'.thread_id) = FieldsOf(svc'.result.d)
        /\ \A id \in ConfigIds :
              (~saved \/ id # svc'.thread_id) =>
                  Stored(session_configs', id) = Stored(session_configs, id)

=============================================================================
